---- MODULE Spec2Model ----
(***************************************************************************)
(* MassAudit Pro: the Call Governor (APICaller: retry wrapper, process-    *)
(* wide consecutive-error counter and circuit breaker), the self-healing   *)
(* verification loop and the driver loops of AuditSystem.run_audit, and    *)
(* the ContextResolver: symbol-name cleaning, the size-guarded read, the   *)
(* Go and Python definition extraction, the first-match search over a      *)
(* tree, and the governor's class-level state under concurrent callers.    *)
(***************************************************************************)
EXTENDS Integers, Sequences, FiniteSets, TLC

\* ---------------------------------------------------------------- bounds
\* number of findings of a project the per-finding loop iterates over
MaxFindings == 2
\* number of project directories the project loop iterates over
MaxProjects == 2
\* longest requested symbol name handed to _clean_function_name
MaxNameLen == 4
\* number of files os.walk yields for a project tree
MaxFiles == 2
\* number of lines of a file handed to _extract_go_definition or
\* _extract_python_definition
MaxLines == 4
\* number of callers inside call_llm at the same time
MaxCallers == 2

\* ------------------------------------------------------ program constants
MAX_API_ERROR_COUNT == 5
STOP_AFTER_ATTEMPT == 5
WAIT_MULTIPLIER == 1
WAIT_MIN == 4
WAIT_MAX == 10
MAX_FIX_ATTEMPTS == 8
MAX_CALLS_PER_PROJECT == 100
MIN_POC_LEN == 20
FILE_SIZE_LIMIT_MB == 1

\* outcomes of one call of client.chat.completions.create
Events == {"success", "transient", "other"}
\* who submits to the governor
Callers == {"analyze", "fix", "judge"}
\* what one build/execute invocation can produce: output with a compile
\* marker, marker-free output of a run, the shell's message when the build
\* tool cannot be started, TimeoutExpired, any other exception
Outputs == {"marker", "clean", "nostart", "timeout", "raise"}
\* the "status" field the judge's parsed answer can carry
JudgeAnswers == {"VULN_CRASH", "VULN_RECOVERED", "SAFE_PASS", "TEST_FAIL", "ERROR"}
\* what the judge's response text can be: an object with a status, or text
\* that json.loads and the two fallbacks cannot parse
JudgeResponses == JudgeAnswers \cup {"unparseable"}
\* analysis_result['verdict'].upper()
Verdicts == {"HIGH", "MEDIUM", "LOW"}
\* len(poc_code) around the threshold
PocLens == {MIN_POC_LEN, MIN_POC_LEN + 1}
\* calls a project has consumed before the findings the loop iterates over
PriorCalls == {0, MAX_CALLS_PER_PROJECT - 1}
\* the least value random.randint(1000, 9999) can return
MIN_SUFFIX == 1000
\* characters of a requested symbol name
Chars == {"a", "b", ".", "(", " "}

VARIABLES
    consecutive_api_errors,   \* APICaller._consecutive_api_errors
    circuit_breaker_tripped,  \* APICaller._circuit_breaker_tripped
    gpc,                      \* position of the governed call: idle, call, wait, ret
    caller,                   \* who is inside call_llm
    attempt_number,           \* tenacity's retry_state.attempt_number
    api_calls,                \* calls of the endpoint made by the current call_llm
    last_event,               \* outcome of the latest _call_deepseek_api invocation
    result,                   \* how call_llm ended: response, CircuitOpen, RetryError, Error
    waits,                    \* the sleeps tenacity inserted in the current call_llm
    failed_submits,           \* consecutive call_llm calls that ended with an error
    dpc,                      \* driver position: project, loop, analyzing, verifying, report, end
    idx,                      \* index of the finding being processed
    proj,                     \* index of the project being processed
    recorded,                 \* len(project_vulnerabilities)
    reports,                  \* reports written by _save_project_report
    project_calls,            \* PROJECT_API_CALL_COUNTS[project_name]
    spc,                      \* session position: idle, run, fix, judge, done, aborted
    attempt,                  \* loop variable of the attempt loop
    outs,                     \* outputs of the build/execute invocations of the session
    repair_calls,             \* fix_poc_code calls made by the session
    judge_calls,              \* _analyze_poc_output_with_ai calls made by the session
    judge_response,           \* what the judge's governed call answered
    judge_result,             \* status returned by the judge
    verify_status,            \* analysis_result['verify_status']
    verify_output,            \* analysis_result['verify_output']
    fix_attempts,             \* analysis_result['fix_attempts']
    has_poc,                  \* analysis_result['has_poc']
    verdict,                  \* analysis_result['verdict'].upper()
    is_testable,              \* analysis_result['is_testable']
    poc_len,                  \* len(analysis_result['poc_code'])
    artifact,                 \* the PoC file of the finding exists under poc_scripts
    copy_present,             \* a copy of the PoC lies in the target source directory
    current_attempt_code,     \* the PoC text held by the loop: 0 the draft, n the nth repair's text
    poc_file,                 \* the text stored at poc_save_path
    executed,                 \* the texts the build/execute invocations of the session ran
    repairs,                  \* the fix_poc_code calls of the session: code and output handed in, text returned
    poc_paths,                \* poc_save_path of the findings of the project that entered verification
    cn_in,                    \* func_name handed to _clean_function_name
    cn_out,                   \* what _clean_function_name returned for cn_in
    cn_again,                 \* what it returned for cn_out
    cn_pc,                    \* cleaning position: in, once, twice
    rs_exists,                \* os.path.join(projects_root, project_path) is a directory
    rs_files,                 \* the files os.walk yields, in traversal order
    rs_pos,                   \* files of the walk already passed
    rs_reads,                 \* indices of the files handed to _read_file_content
    file_content,             \* what the latest _read_file_content returned
    found_contexts,           \* resolve_context's found_contexts
    rs_pc,                    \* search position: idle, walk, returned, raised
    ex_lines,                 \* file_content.splitlines() handed to _extract_go_definition
    ex_block,                 \* the block _extract_go_definition returned
    ex_pc,                    \* extraction position: idle, in, out
    th_pc,                    \* position of each concurrent caller inside _call_deepseek_api
    th_reg,                   \* the counter value each caller loaded for its += 1
    th_event,                 \* outcome of each caller's latest endpoint call
    th_attempt,               \* each caller's retry_state.attempt_number
    th_failed,                \* failed endpoint calls of all callers so far
    th_reset                  \* some caller's endpoint call succeeded

gvars == <<consecutive_api_errors, circuit_breaker_tripped, gpc, caller,
           attempt_number, api_calls, last_event, result, waits, failed_submits>>
avars == <<verdict, is_testable, poc_len, artifact>>
tvars == <<current_attempt_code, poc_file, executed, repairs>>
svars == <<spc, attempt, outs, repair_calls, judge_calls, judge_response,
           judge_result, verify_status, verify_output, fix_attempts, has_poc,
           copy_present, avars, tvars>>
dvars == <<dpc, idx, proj, recorded, reports, project_calls, poc_paths>>
cvars == <<cn_in, cn_out, cn_again, cn_pc>>
rvars == <<rs_exists, rs_files, rs_pos, rs_reads, file_content, found_contexts,
           rs_pc>>
xvars == <<ex_lines, ex_block, ex_pc>>
kvars == <<th_pc, th_reg, th_event, th_attempt, th_failed, th_reset>>
vars == <<gvars, svars, dvars, cvars, rvars, xvars, kvars>>

Max(a, b) == IF a >= b THEN a ELSE b
Min(a, b) == IF a <= b THEN a ELSE b

RECURSIVE Pow2(_)
Pow2(n) == IF n <= 0 THEN 1 ELSE 2 * Pow2(n - 1)

\* ------------------------------------------------------------ Call Governor

\* APICaller._consecutive_api_errors = 0 after a successful call
ErrorsAfterSuccess_kept(n) == n
ErrorsAfterSuccess(n) == 0

\* APICaller._consecutive_api_errors += 1 in the transient-error handler
NextErrors_double(n) == n + 2
NextErrors(n) == n + 1

\* APICaller._consecutive_api_errors += 1 in the catch-all handler
NextErrorsUnexpected_skipped(n) == n
NextErrorsUnexpected(n) == n + 1

\* the threshold test that trips the breaker
Trips_late(n) == n > MAX_API_ERROR_COUNT
Trips(n) == n >= MAX_API_ERROR_COUNT

\* retry_if_exception_type((APIConnectionError, APITimeoutError, APIStatusError))
ShouldRetry(ev) == ev = "transient"

\* stop_after_attempt(5)
ShouldStop_late(a) == a > STOP_AFTER_ATTEMPT
ShouldStop(a) == a >= STOP_AFTER_ATTEMPT

\* wait_exponential(multiplier=1, min=4, max=10), evaluated after attempt a:
\* max(min, min(multiplier * 2^(a-1), max))
WaitExponential_shifted(a) == Max(WAIT_MIN, Min(WAIT_MULTIPLIER * Pow2(a), WAIT_MAX))
WaitExponential(a) == Max(WAIT_MIN, Min(WAIT_MULTIPLIER * Pow2(a - 1), WAIT_MAX))

\* call_llm with a breaker that closes again when the next call arrives
call_llm_halfopen(c) ==
    /\ gpc = "idle"
    /\ caller' = c
    /\ api_calls' = 0
    /\ waits' = <<>>
    /\ last_event' = "none"
    /\ gpc' = "call"
    /\ result' = "none"
    /\ attempt_number' = 1
    /\ consecutive_api_errors' =
         IF circuit_breaker_tripped THEN 0 ELSE consecutive_api_errors
    /\ circuit_breaker_tripped' = FALSE
    /\ UNCHANGED failed_submits

\* call_llm that counts the fast failure as one more error
call_llm_counting(c) ==
    /\ gpc = "idle"
    /\ caller' = c
    /\ api_calls' = 0
    /\ waits' = <<>>
    /\ last_event' = "none"
    /\ IF circuit_breaker_tripped
       THEN /\ gpc' = "ret"
            /\ result' = "CircuitOpen"
            /\ attempt_number' = 0
            /\ failed_submits' = failed_submits + 1
            /\ consecutive_api_errors' = consecutive_api_errors + 1
       ELSE /\ gpc' = "call"
            /\ result' = "none"
            /\ attempt_number' = 1
            /\ UNCHANGED <<failed_submits, consecutive_api_errors>>
    /\ UNCHANGED circuit_breaker_tripped

\* call_llm up to the first invocation of _call_deepseek_api
call_llm(c) ==
    /\ gpc = "idle"
    /\ caller' = c
    /\ api_calls' = 0
    /\ waits' = <<>>
    /\ last_event' = "none"
    /\ IF circuit_breaker_tripped
       THEN \* RuntimeError: the wrapped method is never entered
            /\ gpc' = "ret"
            /\ result' = "CircuitOpen"
            /\ attempt_number' = 0
            /\ failed_submits' = failed_submits + 1
       ELSE /\ gpc' = "call"
            /\ result' = "none"
            /\ attempt_number' = 1
            /\ UNCHANGED failed_submits
    /\ UNCHANGED <<consecutive_api_errors, circuit_breaker_tripped>>

\* call_llm re-raises whatever left the retry wrapper
Raise(err) ==
    /\ gpc' = "ret"
    /\ result' = err
    /\ failed_submits' = failed_submits + 1
    /\ UNCHANGED waits

\* _call_deepseek_api without the circuit-breaker test at its entry
call_deepseek_api_unguarded(ev) ==
    /\ gpc = "call"
    /\ last_event' = ev
    /\ api_calls' = api_calls + 1
    /\ CASE ev = "success" ->
            /\ consecutive_api_errors' = ErrorsAfterSuccess(consecutive_api_errors)
            /\ UNCHANGED circuit_breaker_tripped
            /\ gpc' = "ret"
            /\ result' = "response"
            /\ failed_submits' = 0
            /\ UNCHANGED waits
         [] ev = "transient" ->
            /\ consecutive_api_errors' = NextErrors(consecutive_api_errors)
            /\ circuit_breaker_tripped' =
                 (circuit_breaker_tripped \/ Trips(consecutive_api_errors'))
         [] OTHER ->
            /\ consecutive_api_errors' = NextErrorsUnexpected(consecutive_api_errors)
            /\ circuit_breaker_tripped' =
                 (circuit_breaker_tripped \/ Trips(consecutive_api_errors'))
    /\ ev # "success" =>
         IF ~ShouldRetry(ev) THEN Raise("Error")
         ELSE IF ShouldStop(attempt_number) THEN Raise("RetryError")
         ELSE /\ gpc' = "wait"
              /\ waits' = Append(waits, WaitExponential(attempt_number))
              /\ UNCHANGED <<result, failed_submits>>
    /\ UNCHANGED <<caller, attempt_number>>

\* one invocation of _call_deepseek_api and tenacity's decision on its outcome
call_deepseek_api(ev) ==
    /\ gpc = "call"
    /\ IF circuit_breaker_tripped
       THEN \* RuntimeError raised before the endpoint is called; not retried
            /\ last_event' = "open"
            /\ Raise("CircuitOpen")
            /\ UNCHANGED <<consecutive_api_errors, circuit_breaker_tripped, api_calls>>
       ELSE /\ last_event' = ev
            /\ api_calls' = api_calls + 1
            /\ CASE ev = "success" ->
                    /\ consecutive_api_errors' = ErrorsAfterSuccess(consecutive_api_errors)
                    /\ UNCHANGED circuit_breaker_tripped
                    /\ gpc' = "ret"
                    /\ result' = "response"
                    /\ failed_submits' = 0
                    /\ UNCHANGED waits
                 [] ev = "transient" ->
                    /\ consecutive_api_errors' = NextErrors(consecutive_api_errors)
                    /\ circuit_breaker_tripped' =
                         (circuit_breaker_tripped \/ Trips(consecutive_api_errors'))
                 [] OTHER ->
                    /\ consecutive_api_errors' = NextErrorsUnexpected(consecutive_api_errors)
                    /\ circuit_breaker_tripped' =
                         (circuit_breaker_tripped \/ Trips(consecutive_api_errors'))
            /\ ev # "success" =>
                 IF ~ShouldRetry(ev) THEN Raise("Error")
                 ELSE IF ShouldStop(attempt_number) THEN Raise("RetryError")
                 ELSE /\ gpc' = "wait"
                      /\ waits' = Append(waits, WaitExponential(attempt_number))
                      /\ UNCHANGED <<result, failed_submits>>
    /\ UNCHANGED <<caller, attempt_number>>

\* tenacity sleeps, then starts the next attempt
Sleep ==
    /\ gpc = "wait"
    /\ gpc' = "call"
    /\ attempt_number' = attempt_number + 1
    /\ UNCHANGED <<consecutive_api_errors, circuit_breaker_tripped, caller,
                   api_calls, last_event, result, waits, failed_submits>>

Attempt == \E ev \in Events : call_deepseek_api(ev) /\ UNCHANGED <<svars, dvars, cvars, rvars, xvars, kvars>>

Backoff == Sleep /\ UNCHANGED <<svars, dvars, cvars, rvars, xvars, kvars>>

\* ------------------------------------------------- verification session

\* any(e in output for e in compile_errors): the shell's "not found" message
\* of a missing build tool carries none of the markers
IsCompileError_never(out) == FALSE
IsCompileError_nostart(out) == out \in {"marker", "nostart"}
IsCompileError(out) == out = "marker"

\* attempt < MAX_FIX_ATTEMPTS: a repair may still be requested
RepairAllowed_inclusive(a) == a <= MAX_FIX_ATTEMPTS
RepairAllowed(a) == a < MAX_FIX_ATTEMPTS

\* analysis_result['fix_attempts'] = attempt + 1
FixAttemptsAfterRepair_index(a) == a
FixAttemptsAfterRepair(a) == a + 1

\* process.stdout + "\n" + process.stderr of the latest invocation
Captured(o) == [at |-> Len(o), kind |-> o[Len(o)]]

\* analysis_result['verify_output'] = ''
NoOutput == [at |-> 0, kind |-> ""]

\* analysis_result['verify_output'] = "Execution timed out."
TimedOutText == [at |-> 0, kind |-> "Execution timed out."]

\* no text yet
NoText == -1

\* clean_code, the draft the analysis produced
DraftText == 0

\* the text fix_poc_code returned to repair call n
RepairedText(n) == n

\* a write that leaves the file as it was
WritePoc_stale(old, text) == old
\* with open(poc_save_path, "w") as f: f.write(text)
WritePoc(old, text) == text

\* after the loop: has_poc, poc_path, and the copy is removed
AfterLoop ==
    /\ spc' = "done"
    /\ has_poc' = TRUE
    /\ copy_present' = FALSE

\* a timeout handler that records TIMEOUT but stays in the loop
RunTimeout_nobreak ==
    /\ verify_status' = "TIMEOUT"
    /\ verify_output' = TimedOutText
    /\ IF attempt < MAX_FIX_ATTEMPTS
       THEN /\ spc' = "run"
            /\ attempt' = attempt + 1
            /\ copy_present' = TRUE
            /\ UNCHANGED has_poc
       ELSE AfterLoop /\ UNCHANGED attempt
    /\ UNCHANGED <<repair_calls, judge_calls, judge_response, judge_result,
                   fix_attempts, repairs>>
    /\ UNCHANGED gvars

\* subprocess.run raised TimeoutExpired: record TIMEOUT and leave the loop
RunTimeout ==
    /\ verify_status' = "TIMEOUT"
    /\ verify_output' = TimedOutText
    /\ AfterLoop
    /\ UNCHANGED <<attempt, repair_calls, judge_calls, judge_response,
                   judge_result, fix_attempts, repairs>>
    /\ UNCHANGED gvars

\* an exception other than TimeoutExpired left the loop: the outer handler
\* logs it; the lines after the loop are not executed
RunRaises ==
    /\ spc' = "aborted"
    /\ copy_present' = TRUE
    /\ UNCHANGED <<attempt, repair_calls, judge_calls, judge_response,
                   judge_result, verify_status, verify_output, fix_attempts,
                   has_poc, repairs>>
    /\ UNCHANGED gvars

\* the output matches a compile/environment marker
RunCompileError ==
    IF RepairAllowed(attempt)
    THEN \* fix_poc_code(current_attempt_code, output), a governed call
         /\ spc' = "fix"
         /\ repair_calls' = repair_calls + 1
         /\ copy_present' = TRUE
         /\ repairs' = Append(repairs, [code |-> current_attempt_code,
                                        output |-> Captured(outs'),
                                        fixed |-> NoText])
         /\ call_llm("fix")
         /\ UNCHANGED <<attempt, judge_calls, judge_response, judge_result,
                        verify_status, verify_output, fix_attempts, has_poc>>
    ELSE \* last iteration: the loop ends without a repair
         /\ verify_status' = "COMPILATION_FAILED"
         /\ verify_output' = Captured(outs')
         /\ fix_attempts' = attempt
         /\ AfterLoop
         /\ UNCHANGED <<attempt, repair_calls, judge_calls, judge_response,
                        judge_result, repairs>>
         /\ UNCHANGED gvars

\* the script ran: _analyze_poc_output_with_ai(output), a governed call
RunJudge ==
    /\ spc' = "judge"
    /\ judge_calls' = judge_calls + 1
    /\ copy_present' = TRUE
    /\ call_llm("judge")
    /\ UNCHANGED <<attempt, repair_calls, judge_response, judge_result,
                   verify_status, verify_output, fix_attempts, has_poc, repairs>>

\* one iteration of the attempt loop up to its first governed call: the file
\* at poc_save_path is copied next to the target sources and go test runs it
RunAttempt(out) ==
    /\ spc = "run"
    /\ gpc = "idle"
    /\ outs' = Append(outs, out)
    /\ executed' = Append(executed, poc_file)
    /\ UNCHANGED <<current_attempt_code, poc_file>>
    /\ CASE out = "timeout" -> RunTimeout
         [] out = "raise" -> RunRaises
         [] IsCompileError(out) -> RunCompileError
         [] OTHER -> RunJudge
    /\ UNCHANGED <<avars, dvars, cvars, rvars, xvars, kvars>>

\* fix_poc_code(code, errorOutput) -> repairedCode, routed through the
\* governor: with a response it returns the repaired text; when the governed
\* call failed it either raises or hands back a text
fix_poc_code_raises == IF result = "response" THEN {FALSE} ELSE BOOLEAN

\* fix_poc_code returns the repaired text: write it, count it, next iteration
FixReturn(raises) ==
    /\ spc = "fix"
    /\ gpc = "ret"
    /\ gpc' = "idle"
    /\ IF raises
       THEN \* the error leaves the loop through the outer except
            /\ spc' = "aborted"
            /\ UNCHANGED <<attempt, fix_attempts, tvars>>
       ELSE /\ spc' = "run"
            /\ current_attempt_code' = RepairedText(repair_calls)
            /\ poc_file' = WritePoc(poc_file, RepairedText(repair_calls))
            /\ repairs' = [repairs EXCEPT ![Len(repairs)].fixed =
                                              RepairedText(repair_calls)]
            /\ fix_attempts' = FixAttemptsAfterRepair(attempt)
            /\ attempt' = attempt + 1
            /\ UNCHANGED executed
    /\ UNCHANGED <<consecutive_api_errors, circuit_breaker_tripped, caller,
                   attempt_number, api_calls, last_event, result, waits,
                   failed_submits>>
    /\ UNCHANGED <<outs, repair_calls, judge_calls, judge_response, judge_result,
                   verify_status, verify_output, has_poc, copy_present>>
    /\ UNCHANGED <<avars, dvars, cvars, rvars, xvars, kvars>>

\* json.loads(response) with its two fallbacks, then .get("status", "UNKNOWN")
ParseJudge_error(resp) == IF resp = "unparseable" THEN "ERROR" ELSE resp
ParseJudge(resp) == IF resp = "unparseable" THEN "UNKNOWN" ELSE resp

\* a judge whose failed governed call leaves _analyze_poc_output_with_ai
JudgeReturn_propagates(ans) ==
    /\ spc = "judge"
    /\ gpc = "ret"
    /\ gpc' = "idle"
    /\ judge_response' = IF result = "response" THEN ans ELSE "failed"
    /\ IF result = "response"
       THEN /\ judge_result' = ParseJudge(ans)
            /\ verify_status' = judge_result'
            /\ verify_output' = Captured(outs)
            /\ AfterLoop
       ELSE /\ spc' = "aborted"
            /\ UNCHANGED <<judge_result, verify_status, verify_output, has_poc,
                           copy_present>>
    /\ UNCHANGED <<consecutive_api_errors, circuit_breaker_tripped, caller,
                   attempt_number, api_calls, last_event, result, waits,
                   failed_submits>>
    /\ UNCHANGED <<attempt, outs, repair_calls, judge_calls, fix_attempts, tvars>>
    /\ UNCHANGED <<avars, dvars, cvars, rvars, xvars, kvars>>

\* the judge's answer (UNKNOWN when the governed call failed) ends the loop
JudgeReturn(ans) ==
    /\ spc = "judge"
    /\ gpc = "ret"
    /\ gpc' = "idle"
    /\ judge_response' = IF result = "response" THEN ans ELSE "failed"
    /\ judge_result' = IF result = "response" THEN ParseJudge(ans) ELSE "UNKNOWN"
    /\ verify_status' = judge_result'
    /\ verify_output' = Captured(outs)
    /\ AfterLoop
    /\ UNCHANGED <<consecutive_api_errors, circuit_breaker_tripped, caller,
                   attempt_number, api_calls, last_event, result, waits,
                   failed_submits>>
    /\ UNCHANGED <<attempt, outs, repair_calls, judge_calls, fix_attempts, tvars>>
    /\ UNCHANGED <<avars, dvars, cvars, rvars, xvars, kvars>>

\* ------------------------------------------------------------------ driver

\* PROJECT_API_CALL_COUNTS.get(project_name, 0) >= MAX_CALLS_PER_PROJECT
QuotaReached(n) == n >= MAX_CALLS_PER_PROJECT

\* if APICaller._circuit_breaker_tripped: break, in the per-finding loop
BreakerStops_never == FALSE
BreakerStops == circuit_breaker_tripped

\* (verdict in ['HIGH', 'MEDIUM']) and is_testable and poc_code and len(poc_code) > 20
Precondition_inclusive(v, t, n) == v \in {"HIGH", "MEDIUM"} /\ t /\ n >= MIN_POC_LEN
Precondition(v, t, n) == v \in {"HIGH", "MEDIUM"} /\ t /\ n > MIN_POC_LEN

\* project_vulnerabilities.append(analysis_result)
Append_result(n) == n + 1

\* a loop that ends with every recorded finding
AfterFinding_break(status) == "report"
\* if analysis_result.get('status') == 'aborted': break
AfterFinding(status) == IF status = "aborted" THEN "report" ELSE "loop"

\* VulnerabilityAnalyzer counts each governed call of the analysis in
\* PROJECT_API_CALL_COUNTS[project_name]
analyze_vulnerability_counts(n) == n + 1

\* os.path.join(poc_base_dir, f"{project_name}_{current_time_str}_{random_suffix}_test.go"):
\* project name and time string are fixed for the project, the suffix is drawn
\* for each finding
poc_save_path(p, suffix) == [project |-> p, suffix |-> suffix]

\* random.randint(1000, 9999) for the next finding of the project: a value
\* drawn for an earlier finding, or one not drawn before (up to the choice of
\* that value, the least one that cannot have been drawn yet)
RandomSuffixes(paths) ==
    {paths[i].suffix : i \in 1..Len(paths)} \cup {MIN_SUFFIX + Len(paths)}

\* top of the project loop: a project whose report exists is skipped, a
\* tripped breaker ends the loop, a project without language, database or
\* results is skipped, any other project starts its per-finding loop
StartProject(skip, prior) ==
    /\ dpc = "project"
    /\ IF proj >= MaxProjects
       THEN dpc' = "end" /\ UNCHANGED <<idx, proj, recorded, project_calls, poc_paths>>
       ELSE IF skip = "scanned"
       THEN dpc' = "project" /\ proj' = proj + 1
            /\ UNCHANGED <<idx, recorded, project_calls, poc_paths>>
       ELSE IF circuit_breaker_tripped
       THEN dpc' = "end" /\ UNCHANGED <<idx, proj, recorded, project_calls, poc_paths>>
       ELSE IF skip = "unanalyzable"
       THEN dpc' = "project" /\ proj' = proj + 1
            /\ UNCHANGED <<idx, recorded, project_calls, poc_paths>>
       ELSE /\ dpc' = "loop"
            /\ idx' = 0
            /\ recorded' = 0
            /\ project_calls' = prior
            /\ poc_paths' = <<>>
            /\ UNCHANGED proj
    /\ UNCHANGED <<reports, gvars, svars, cvars, rvars, xvars, kvars>>

\* top of the per-finding loop: stop on quota or a tripped breaker, else
\* analyze_vulnerability, which counts its governed call for the project
NextFinding ==
    /\ dpc = "loop"
    /\ gpc = "idle"
    /\ IF idx >= MaxFindings \/ QuotaReached(project_calls) \/ BreakerStops
       THEN /\ dpc' = "report"
            /\ UNCHANGED <<gvars, project_calls>>
       ELSE /\ dpc' = "analyzing"
            /\ project_calls' = analyze_vulnerability_counts(project_calls)
            /\ call_llm("analyze")
    /\ UNCHANGED <<idx, proj, recorded, reports, poc_paths, svars, cvars, rvars, xvars, kvars>>

\* analyze_vulnerability: an answered analysis carries a verdict, the
\* testable mark and a PoC text; a failed one raises, or returns a result
\* without PoC that may be marked 'aborted'
analyze_vulnerability_results ==
    IF result = "response"
    THEN [status : {"ok"}, verdict : Verdicts, is_testable : BOOLEAN, poc_len : PocLens]
    ELSE [status : {"raise", "aborted", "ok"}, verdict : {"ERROR"},
          is_testable : {FALSE}, poc_len : {0}]

\* the analysis came back: initialise the verification fields and either
\* enter verification (writing the PoC artifact) or record the finding
AnalysisReturn(r, suffix) ==
    /\ dpc = "analyzing"
    /\ gpc = "ret"
    /\ gpc' = "idle"
    /\ UNCHANGED <<consecutive_api_errors, circuit_breaker_tripped, caller,
                   attempt_number, api_calls, last_event, result, waits,
                   failed_submits>>
    /\ IF r.status = "raise"
       THEN \* except Exception: log, nothing appended, next finding
            /\ dpc' = "loop"
            /\ idx' = idx + 1
            /\ UNCHANGED <<recorded, poc_paths, svars>>
       ELSE /\ verdict' = r.verdict
            /\ is_testable' = r.is_testable
            /\ poc_len' = r.poc_len
            /\ has_poc' = FALSE
            /\ verify_status' = "SKIPPED"
            /\ verify_output' = NoOutput
            /\ fix_attempts' = 0
            /\ attempt' = 0
            /\ outs' = <<>>
            /\ repair_calls' = 0
            /\ judge_calls' = 0
            /\ judge_response' = "none"
            /\ judge_result' = "none"
            /\ copy_present' = FALSE
            /\ executed' = <<>>
            /\ repairs' = <<>>
            /\ IF Precondition(r.verdict, r.is_testable, r.poc_len)
               THEN /\ artifact' = TRUE
                    /\ poc_paths' = Append(poc_paths, poc_save_path(proj, suffix))
                    /\ current_attempt_code' = DraftText
                    /\ poc_file' = WritePoc(NoText, DraftText)
                    /\ spc' = "run"
                    /\ dpc' = "verifying"
                    /\ UNCHANGED <<idx, recorded>>
               ELSE /\ artifact' = FALSE
                    /\ UNCHANGED poc_paths
                    /\ current_attempt_code' = NoText
                    /\ poc_file' = NoText
                    /\ spc' = "idle"
                    /\ recorded' = Append_result(recorded)
                    /\ idx' = idx + 1
                    /\ dpc' = AfterFinding(r.status)
    /\ UNCHANGED <<proj, reports, project_calls, cvars, rvars, xvars, kvars>>

\* project_vulnerabilities.append(analysis_result) after a session
RecordSession ==
    /\ dpc = "verifying"
    /\ spc \in {"done", "aborted"}
    /\ spc' = "idle"
    /\ dpc' = AfterFinding("ok")
    /\ idx' = idx + 1
    /\ recorded' = Append_result(recorded)
    /\ UNCHANGED <<proj, reports, project_calls, poc_paths, gvars, cvars, rvars,
                   xvars, kvars>>
    /\ UNCHANGED <<attempt, outs, repair_calls, judge_calls, judge_response,
                   judge_result, verify_status, verify_output, fix_attempts,
                   has_poc, copy_present, avars, tvars>>

\* after the per-finding loop: save the report, stop on a tripped breaker
SaveReport ==
    /\ dpc = "report"
    /\ reports' = reports + 1
    /\ IF circuit_breaker_tripped
       THEN dpc' = "end" /\ UNCHANGED proj
       ELSE dpc' = "project" /\ proj' = proj + 1
    /\ UNCHANGED <<idx, recorded, project_calls, poc_paths, gvars, svars, cvars,
                   rvars, xvars, kvars>>

\* ------------------------------------------------------- context resolver

Range(s) == {s[i] : i \in 1..Len(s)}

\* the text before the last occurrence of ch
BeforeFirst_last(s, ch) ==
    IF ch \notin Range(s) THEN s
    ELSE LET k == CHOOSE i \in 1..Len(s) :
                    s[i] = ch /\ \A j \in (i + 1)..Len(s) : s[j] # ch
         IN  SubSeq(s, 1, k - 1)

\* func_name.split(ch)[0]
BeforeFirst(s, ch) ==
    IF ch \notin Range(s) THEN s
    ELSE LET k == CHOOSE i \in 1..Len(s) :
                    s[i] = ch /\ \A j \in 1..(i - 1) : s[j] # ch
         IN  SubSeq(s, 1, k - 1)

\* func_name.split(ch)[-1]
AfterLast(s, ch) ==
    IF ch \notin Range(s) THEN s
    ELSE LET k == CHOOSE i \in 1..Len(s) :
                    s[i] = ch /\ \A j \in (i + 1)..Len(s) : s[j] # ch
         IN  SubSeq(s, k + 1, Len(s))

\* str.strip()
RECURSIVE Strip(_)
Strip(s) ==
    IF s = <<>> THEN s
    ELSE IF s[1] = " " THEN Strip(Tail(s))
    ELSE IF s[Len(s)] = " " THEN Strip(SubSeq(s, 1, Len(s) - 1))
    ELSE s

\* _clean_function_name without the strip of the last segment
clean_function_name_unstripped(name) ==
    LET head == IF "(" \in Range(name) THEN BeforeFirst(name, "(") ELSE name
    IN  IF "." \in Range(head) THEN AfterLast(head, ".") ELSE Strip(head)

\* ContextResolver._clean_function_name
clean_function_name(name) ==
    LET head == IF "(" \in Range(name) THEN BeforeFirst(name, "(") ELSE name
    IN  IF "." \in Range(head) THEN Strip(AfterLast(head, ".")) ELSE Strip(head)

\* requested names: every string over Chars of length at most MaxNameLen
Names == UNION {[1..n -> Chars] : n \in 0..MaxNameLen}

\* the resolver cleans the requested name
CleanOnce ==
    /\ cn_pc = "in"
    /\ cn_out' = clean_function_name(cn_in)
    /\ cn_pc' = "once"
    /\ UNCHANGED <<cn_in, cn_again, gvars, svars, dvars, rvars, xvars, kvars>>

\* the cleaned name is cleaned again
CleanTwice ==
    /\ cn_pc = "once"
    /\ cn_again' = clean_function_name(cn_out)
    /\ cn_pc' = "twice"
    /\ UNCHANGED <<cn_in, cn_out, gvars, svars, dvars, rvars, xvars, kvars>>

\* ------------------------------------------ context resolver: guarded read

\* FILE_SIZE_LIMIT_MB * 1024 * 1024
SizeLimit == FILE_SIZE_LIMIT_MB * 1024 * 1024

\* len("\n[WARNING: File too large, truncated]\n")
TruncationMarkerLen == 38

\* os.path.getsize of a file around the limit (one byte per character)
FileSizes == {SizeLimit, SizeLimit + 1}

\* what decides a file's way through the loop body: its name (a .go, .py or
\* .js source, a test file, a name without a recognized extension), whether
\* it can be read, its size, and where it defines the requested symbol (not
\* at all, within the first SizeLimit characters, or behind them)
Files == [name : {"go", "py", "js", "test", "md"}, readable : BOOLEAN,
          bytes : FileSizes, defines : {"no", "head", "tail"}]

\* return None
NoContent == [kind |-> "None", len |-> 0, marked |-> FALSE, has_def |-> FALSE]

\* a read error that leaves _read_file_content
ReadError == [kind |-> "raise", len |-> 0, marked |-> FALSE, has_def |-> FALSE]

\* _read_file_content without its except clause
read_file_content_uncaught(f) ==
    IF ~f.readable THEN ReadError
    ELSE IF f.bytes > SizeLimit
    THEN [kind |-> "text", len |-> Min(f.bytes, SizeLimit) + TruncationMarkerLen,
          marked |-> TRUE, has_def |-> f.defines = "head"]
    ELSE [kind |-> "text", len |-> f.bytes, marked |-> FALSE,
          has_def |-> f.defines # "no"]

\* ContextResolver._read_file_content: None on any error; a file above the
\* limit is read up to the limit and the marker is appended
read_file_content(f) ==
    IF ~f.readable THEN NoContent
    ELSE IF f.bytes > SizeLimit
    THEN [kind |-> "text", len |-> Min(f.bytes, SizeLimit) + TruncationMarkerLen,
          marked |-> TRUE, has_def |-> f.defines = "head"]
    ELSE [kind |-> "text", len |-> f.bytes, marked |-> FALSE,
          has_def |-> f.defines # "no"]

\* ------------------------------------------ context resolver: Go extraction

\* the lines of a Go file as _extract_go_definition sees them: whether
\* func_pattern or def_pattern matches, the count of '{' and of '}', whether
\* the line holds a '(' and whether it is blank
GoLine(f, d, o, c, p, b) ==
    [func |-> f, def |-> d, opens |-> o, closes |-> c, paren |-> p, blank |-> b]

\* func Name(a int) {
FuncOpen == GoLine(TRUE, FALSE, 1, 0, TRUE, FALSE)
\* func Name() {}
FuncOneLine == GoLine(TRUE, FALSE, 1, 1, TRUE, FALSE)
\* func Name(        (the parameter list continues on the next lines)
FuncParen == GoLine(TRUE, FALSE, 0, 0, TRUE, FALSE)
\* const Name = 1
DefLine == GoLine(FALSE, TRUE, 0, 0, FALSE, FALSE)
\* var Name = compute(1)
DefCall == GoLine(FALSE, TRUE, 0, 0, TRUE, FALSE)
\* type Name struct {
TypeOpen == GoLine(FALSE, TRUE, 1, 0, FALSE, FALSE)
\* if x {     ) {     func other() {
OpenLine == GoLine(FALSE, FALSE, 1, 0, FALSE, FALSE)
\* }
CloseLine == GoLine(FALSE, FALSE, 0, 1, FALSE, FALSE)
\* x++
StmtLine == GoLine(FALSE, FALSE, 0, 0, FALSE, FALSE)
\* an empty line
BlankLine == GoLine(FALSE, FALSE, 0, 0, FALSE, TRUE)

GoLines == {FuncOpen, FuncOneLine, FuncParen, DefLine, DefCall, TypeOpen,
            OpenLine, CloseLine, StmtLine, BlankLine}

\* every file of at most MaxLines lines
GoFiles == UNION {[1..n -> GoLines] : n \in 0..MaxLines}

\* return ... None
NoBlock == [found |-> FALSE, first |-> 0, last |-> 0]

\* '{' in "".join(definition_lines)
BraceSeen(lines, first, i) == \E j \in first..i : lines[j].opens > 0

\* if brace_count <= 0: break when a '{' was seen in the block so far, or
\* when the count is zero and the line has no '{'
LoopEnds(lines, first, i, count) ==
    /\ count <= 0
    /\ \/ BraceSeen(lines, first, i)
       \/ count = 0 /\ lines[i].opens = 0

\* the in_definition branch of the line loop: append the line, update
\* brace_count, stop or go on; gives the index of the last appended line
RECURSIVE BlockEnd(_, _, _, _)
BlockEnd(lines, first, i, count) ==
    IF i > Len(lines) THEN Len(lines)
    ELSE LET c == count + lines[i].opens - lines[i].closes
         IN  IF LoopEnds(lines, first, i, c) THEN i
             ELSE BlockEnd(lines, first, i + 1, c)

\* "\n".join(definition_lines).strip(): blank lines at the end are dropped
RECURSIVE StripBlock(_, _, _)
StripBlock(lines, first, last) ==
    IF last > first /\ lines[last].blank THEN StripBlock(lines, first, last - 1)
    ELSE last

\* ContextResolver._extract_go_definition
extract_go_definition(lines) ==
    IF \A i \in 1..Len(lines) : ~(lines[i].func \/ lines[i].def) THEN NoBlock
    ELSE LET first == CHOOSE i \in 1..Len(lines) :
                          /\ lines[i].func \/ lines[i].def
                          /\ \A j \in 1..(i - 1) : ~(lines[j].func \/ lines[j].def)
             head == lines[first]
             count == IF head.opens > 0 THEN head.opens - head.closes ELSE 0
             last == IF head.def /\ head.opens = 0 /\ ~head.paren THEN first
                     ELSE BlockEnd(lines, first, first + 1, count)
         IN  [found |-> TRUE, first |-> first,
              last |-> StripBlock(lines, first, last)]

\* _extract_go_definition applied to a file
Extract ==
    /\ ex_pc = "in"
    /\ ex_block' = extract_go_definition(ex_lines)
    /\ ex_pc' = "out"
    /\ UNCHANGED <<ex_lines, gvars, svars, dvars, cvars, rvars, kvars>>

\* -------------------------------------- context resolver: Python extraction

\* len(line) - len(line.lstrip()) of the lines of a Python file
Indents == 0..2

\* the lines of a Python file as _extract_python_definition sees them:
\* whether func_pattern or var_pattern matches (func_pattern only without
\* indentation, var_pattern at any), the indentation, whether the line is blank
PyLines == [match : BOOLEAN, indent : Indents, blank : {FALSE}]
               \cup {[match |-> FALSE, indent |-> 0, blank |-> TRUE]}

\* every file of at most MaxLines lines
PyFiles == UNION {[1..n -> PyLines] : n \in 0..MaxLines}

\* if func_pattern.search(line) or var_pattern.search(line), tried on every
\* line of the loop, also inside an open definition
Rematches(line, in_definition) == line.match

\* the line loop of _extract_python_definition from line i on: a matching
\* line is appended and sets target_indent; inside the definition a blank or
\* deeper line is appended and any other line ends the loop
RECURSIVE PyScan(_, _, _, _, _, _)
PyScan(lines, i, in_definition, target_indent, first, last) ==
    IF i > Len(lines)
    THEN [found |-> in_definition, first |-> first, last |-> last]
    ELSE IF Rematches(lines[i], in_definition)
    THEN PyScan(lines, i + 1, TRUE, lines[i].indent,
                IF in_definition THEN first ELSE i, i)
    ELSE IF in_definition
    THEN IF lines[i].blank \/ lines[i].indent > target_indent
         THEN PyScan(lines, i + 1, TRUE, target_indent, first, i)
         ELSE [found |-> TRUE, first |-> first, last |-> last]
    ELSE PyScan(lines, i + 1, FALSE, target_indent, first, last)

\* ContextResolver._extract_python_definition
extract_python_definition(lines) ==
    LET block == PyScan(lines, 1, FALSE, -1, 0, 0)
    IN  IF block.found
        THEN [block EXCEPT !.last = StripBlock(lines, block.first, block.last)]
        ELSE NoBlock

\* _extract_python_definition applied to a file
ExtractPy ==
    /\ ex_pc = "in"
    /\ ex_block' = extract_python_definition(ex_lines)
    /\ ex_pc' = "out"
    /\ UNCHANGED <<ex_lines, gvars, svars, dvars, cvars, rvars, kvars>>

\* ------------------------------------------ context resolver: the search

\* file_name.endswith(('.go', '.py', '.js', '.java', '.cpp', '.c'))
Recognized(name) == name \in {"go", "py", "js", "test"}

\* "_test.go" in file_name or "test_" in file_name
IsTestFile(name) == name = "test"

\* an extractor that reports a definition for every .go and .py file
extract_definition_always(f, content) == f.name \in {"go", "py"}
\* the extractor chosen by the extension found the definition in the content
extract_definition(f, content) == f.name \in {"go", "py"} /\ content.has_def

\* 'language' of a found context
Language(name) == IF name = "py" THEN "Python" ELSE "Go"

\* a search that goes on after a hit
StopAfterHit_never(found) == FALSE
\* if len(found_contexts) >= 1: return found_contexts
StopAfterHit(found) == Len(found) >= 1

\* one iteration of the file loop of resolve_context
ScanFile ==
    /\ rs_pc = "walk"
    /\ rs_pos < Len(rs_files)
    /\ rs_pos' = rs_pos + 1
    /\ LET f == rs_files[rs_pos + 1]
           content == read_file_content(f)
       IN  IF ~Recognized(f.name) \/ IsTestFile(f.name)
           THEN UNCHANGED <<rs_reads, file_content, found_contexts, rs_pc>>
           ELSE /\ rs_reads' = Append(rs_reads, rs_pos + 1)
                /\ file_content' = content
                /\ IF content.kind = "raise"
                   THEN rs_pc' = "raised" /\ UNCHANGED found_contexts
                   ELSE IF content.kind = "None"
                   THEN UNCHANGED <<found_contexts, rs_pc>>
                   ELSE IF extract_definition(f, content)
                   THEN /\ found_contexts' =
                              Append(found_contexts,
                                     [file |-> rs_pos + 1,
                                      language |-> Language(f.name)])
                        /\ rs_pc' = IF StopAfterHit(found_contexts')
                                    THEN "returned" ELSE "walk"
                   ELSE UNCHANGED <<found_contexts, rs_pc>>
    /\ UNCHANGED <<rs_exists, rs_files, gvars, svars, dvars, cvars, xvars, kvars>>

\* the walk is over: return found_contexts
ResolveReturn ==
    /\ rs_pc = "walk"
    /\ rs_pos = Len(rs_files)
    /\ rs_pc' = "returned"
    /\ UNCHANGED <<rs_exists, rs_files, rs_pos, rs_reads, file_content,
                   found_contexts, gvars, svars, dvars, cvars, xvars, kvars>>

\* the trees os.walk goes through: a path that is no directory yields nothing
Trees == UNION {[1..n -> Files] : n \in 0..MaxFiles}

\* --------------------------------------- Call Governor: concurrent callers

\* the callers that are inside call_llm at the same time
Threads == 1..MaxCallers

\* if APICaller._circuit_breaker_tripped: raise RuntimeError, read at the
\* entry of call_llm and of every attempt
ThreadEnter(t) ==
    /\ th_pc[t] = "enter"
    /\ th_pc' = [th_pc EXCEPT ![t] = IF circuit_breaker_tripped THEN "done"
                                     ELSE "request"]
    /\ th_event' = [th_event EXCEPT ![t] = IF circuit_breaker_tripped THEN "open"
                                           ELSE th_event[t]]
    /\ UNCHANGED <<th_reg, th_attempt, th_failed, th_reset>>
    /\ UNCHANGED <<gvars, svars, dvars, cvars, rvars, xvars>>

\* client.chat.completions.create returns or raises
ThreadRequest(t, ev) ==
    /\ th_pc[t] = "request"
    /\ th_event' = [th_event EXCEPT ![t] = ev]
    /\ th_pc' = [th_pc EXCEPT ![t] = IF ev = "success" THEN "reset" ELSE "load"]
    /\ th_failed' = IF ev = "success" THEN th_failed ELSE th_failed + 1
    /\ UNCHANGED <<th_reg, th_attempt, th_reset>>
    /\ UNCHANGED <<gvars, svars, dvars, cvars, rvars, xvars>>

\* APICaller._consecutive_api_errors = 0; the response is returned
ThreadReset(t) ==
    /\ th_pc[t] = "reset"
    /\ consecutive_api_errors' = ErrorsAfterSuccess(consecutive_api_errors)
    /\ th_reset' = TRUE
    /\ th_pc' = [th_pc EXCEPT ![t] = "done"]
    /\ UNCHANGED <<th_reg, th_event, th_attempt, th_failed>>
    /\ UNCHANGED <<circuit_breaker_tripped, gpc, caller, attempt_number,
                   api_calls, last_event, result, waits, failed_submits>>
    /\ UNCHANGED <<svars, dvars, cvars, rvars, xvars>>

\* APICaller._consecutive_api_errors += 1, first half: the attribute is read
ThreadLoad(t) ==
    /\ th_pc[t] = "load"
    /\ th_reg' = [th_reg EXCEPT ![t] = consecutive_api_errors]
    /\ th_pc' = [th_pc EXCEPT ![t] = "store"]
    /\ UNCHANGED <<th_event, th_attempt, th_failed, th_reset>>
    /\ UNCHANGED <<gvars, svars, dvars, cvars, rvars, xvars>>

\* APICaller._consecutive_api_errors += 1, second half: the sum is stored
ThreadStore(t) ==
    /\ th_pc[t] = "store"
    /\ consecutive_api_errors' =
         IF th_event[t] = "transient" THEN NextErrors(th_reg[t])
         ELSE NextErrorsUnexpected(th_reg[t])
    /\ th_pc' = [th_pc EXCEPT ![t] = "test"]
    /\ UNCHANGED <<th_reg, th_event, th_attempt, th_failed, th_reset>>
    /\ UNCHANGED <<circuit_breaker_tripped, gpc, caller, attempt_number,
                   api_calls, last_event, result, waits, failed_submits>>
    /\ UNCHANGED <<svars, dvars, cvars, rvars, xvars>>

\* the threshold test of the handler, the raise, and tenacity's decision
ThreadTest(t) ==
    /\ th_pc[t] = "test"
    /\ circuit_breaker_tripped' =
         (circuit_breaker_tripped \/ Trips(consecutive_api_errors))
    /\ IF ShouldRetry(th_event[t]) /\ ~ShouldStop(th_attempt[t])
       THEN /\ th_pc' = [th_pc EXCEPT ![t] = "enter"]
            /\ th_attempt' = [th_attempt EXCEPT ![t] = th_attempt[t] + 1]
       ELSE /\ th_pc' = [th_pc EXCEPT ![t] = "done"]
            /\ UNCHANGED th_attempt
    /\ UNCHANGED <<th_reg, th_event, th_failed, th_reset>>
    /\ UNCHANGED <<consecutive_api_errors, gpc, caller, attempt_number,
                   api_calls, last_event, result, waits, failed_submits>>
    /\ UNCHANGED <<svars, dvars, cvars, rvars, xvars>>

\* ----------------------------------------------------------- specification

InitProgram ==
    /\ consecutive_api_errors = 0
    /\ circuit_breaker_tripped = FALSE
    /\ gpc = "idle"
    /\ caller = "none"
    /\ attempt_number = 0
    /\ api_calls = 0
    /\ last_event = "none"
    /\ result = "none"
    /\ waits = <<>>
    /\ failed_submits = 0
    /\ dpc = "project"
    /\ idx = 0
    /\ proj = 0
    /\ recorded = 0
    /\ reports = 0
    /\ project_calls = 0
    /\ spc = "idle"
    /\ attempt = 0
    /\ outs = <<>>
    /\ repair_calls = 0
    /\ judge_calls = 0
    /\ judge_response = "none"
    /\ judge_result = "none"
    /\ verify_status = "SKIPPED"
    /\ verify_output = NoOutput
    /\ fix_attempts = 0
    /\ has_poc = FALSE
    /\ verdict = "none"
    /\ is_testable = FALSE
    /\ poc_len = 0
    /\ artifact = FALSE
    /\ copy_present = FALSE
    /\ current_attempt_code = NoText
    /\ poc_file = NoText
    /\ executed = <<>>
    /\ repairs = <<>>
    /\ poc_paths = <<>>

\* no name is being cleaned
InitNoClean ==
    /\ cn_in = <<>>
    /\ cn_out = <<>>
    /\ cn_again = <<>>
    /\ cn_pc = "idle"

\* no search is running
InitNoResolve ==
    /\ rs_exists = FALSE
    /\ rs_files = <<>>
    /\ rs_pos = 0
    /\ rs_reads = <<>>
    /\ file_content = NoContent
    /\ found_contexts = <<>>
    /\ rs_pc = "idle"

\* no extraction is running
InitNoExtract ==
    /\ ex_lines = <<>>
    /\ ex_block = NoBlock
    /\ ex_pc = "idle"

\* no concurrent callers
InitNoThreads ==
    /\ th_pc = <<>>
    /\ th_reg = <<>>
    /\ th_event = <<>>
    /\ th_attempt = <<>>
    /\ th_failed = 0
    /\ th_reset = FALSE

Init ==
    /\ InitProgram
    /\ InitNoClean
    /\ InitNoResolve
    /\ InitNoExtract
    /\ InitNoThreads

Project == \E skip \in {"no", "scanned", "unanalyzable"}, prior \in PriorCalls :
               StartProject(skip, prior)

Run == \E out \in Outputs : RunAttempt(out)

Repaired == \E raises \in fix_poc_code_raises : FixReturn(raises)

Judged == \E ans \in JudgeResponses : JudgeReturn(ans)

Analyzed == \E r \in analyze_vulnerability_results, suffix \in RandomSuffixes(poc_paths) :
                AnalysisReturn(r, suffix)

Next ==
    \/ Project
    \/ NextFinding
    \/ Analyzed
    \/ Attempt
    \/ Backoff
    \/ Run
    \/ Repaired
    \/ Judged
    \/ RecordSession
    \/ SaveReport

Spec == Init /\ [][Next]_vars

\* the name cleaning applied to every requested name, then to its result
InitClean ==
    /\ InitProgram
    /\ cn_in \in Names
    /\ cn_out = <<>>
    /\ cn_again = <<>>
    /\ cn_pc = "in"
    /\ InitNoResolve
    /\ InitNoExtract
    /\ InitNoThreads

NextClean == CleanOnce \/ CleanTwice

SpecClean == InitClean /\ [][NextClean]_vars

\* resolve_context over every tree of at most MaxFiles files
InitResolve ==
    /\ InitProgram
    /\ InitNoClean
    /\ InitNoExtract
    /\ InitNoThreads
    /\ rs_exists \in BOOLEAN
    /\ rs_files \in (IF rs_exists THEN Trees ELSE {<<>>})
    /\ rs_pos = 0
    /\ rs_reads = <<>>
    /\ file_content = NoContent
    /\ found_contexts = <<>>
    /\ rs_pc = "walk"

NextResolve == ScanFile \/ ResolveReturn

SpecResolve == InitResolve /\ [][NextResolve]_vars

\* _extract_go_definition over every file of at most MaxLines lines
InitExtract ==
    /\ InitProgram
    /\ InitNoClean
    /\ InitNoResolve
    /\ InitNoThreads
    /\ ex_lines \in GoFiles
    /\ ex_block = NoBlock
    /\ ex_pc = "in"

NextExtract == Extract

SpecExtract == InitExtract /\ [][NextExtract]_vars

\* _extract_python_definition over every file of at most MaxLines lines
InitExtractPy ==
    /\ InitProgram
    /\ InitNoClean
    /\ InitNoResolve
    /\ InitNoThreads
    /\ ex_lines \in PyFiles
    /\ ex_block = NoBlock
    /\ ex_pc = "in"

NextExtractPy == ExtractPy

SpecExtractPy == InitExtractPy /\ [][NextExtractPy]_vars

\* MaxCallers callers enter call_llm at the same time, each for one call
InitThreads ==
    /\ InitProgram
    /\ InitNoClean
    /\ InitNoResolve
    /\ InitNoExtract
    /\ th_pc = [t \in Threads |-> "enter"]
    /\ th_reg = [t \in Threads |-> 0]
    /\ th_event = [t \in Threads |-> "none"]
    /\ th_attempt = [t \in Threads |-> 1]
    /\ th_failed = 0
    /\ th_reset = FALSE

NextThreads == \E t \in Threads :
    \/ ThreadEnter(t)
    \/ \E ev \in Events : ThreadRequest(t, ev)
    \/ ThreadReset(t)
    \/ ThreadLoad(t)
    \/ ThreadStore(t)
    \/ ThreadTest(t)

SpecThreads == InitThreads /\ [][NextThreads]_vars

\* ------------------------------------------------------------- properties

InSubmit == gpc \in {"call", "wait"}

\* the step is one call of the endpoint by the current call_llm
EndpointCalled == api_calls' = api_calls + 1

\* C1: once the tripped flag is true it is true in every later state; no
\* step of the governor, the session or the driver resets it.
C1_TrippedStaysTripped ==
    [][circuit_breaker_tripped => circuit_breaker_tripped']_vars

\* a judge submit was made after the trip and the flag is still set
C1_Witness ==
    /\ circuit_breaker_tripped
    /\ spc = "done"
    /\ caller = "judge"
    /\ result = "CircuitOpen"
    /\ judge_result = "UNKNOWN"

\* C2: while the consecutive-error counter is below the threshold the
\* breaker is closed, and the failure that brings the counter to the
\* threshold sets the tripped flag in that same step.
C2_TripsAtThreshold ==
    [][/\ consecutive_api_errors < MAX_API_ERROR_COUNT => ~circuit_breaker_tripped
       /\ consecutive_api_errors' < MAX_API_ERROR_COUNT => ~circuit_breaker_tripped'
       /\ (/\ consecutive_api_errors < MAX_API_ERROR_COUNT
           /\ consecutive_api_errors' >= MAX_API_ERROR_COUNT)
          => circuit_breaker_tripped']_vars

\* the failure that reached the threshold has just happened
C2_Witness ==
    /\ consecutive_api_errors = MAX_API_ERROR_COUNT
    /\ circuit_breaker_tripped
    /\ last_event = "transient"
    /\ api_calls = 3

\* C3: fewer than MAX_API_ERROR_COUNT consecutive failed call_llm calls
\* (each with its retries, the one in progress included) never trip the
\* breaker.
C3_FewerFailedSubmitsNeverTrip ==
    circuit_breaker_tripped =>
        failed_submits + (IF InSubmit THEN 1 ELSE 0) >= MAX_API_ERROR_COUNT

\* C4: call_llm entered with the tripped flag set ends at once with the
\* circuit-open error: no endpoint call, no attempt, no wait, and the
\* counter and the flag are left as they were.
C4_TrippedFailsFast ==
    [][(gpc = "idle" /\ gpc' # "idle" /\ circuit_breaker_tripped) =>
          /\ gpc' = "ret"
          /\ result' = "CircuitOpen"
          /\ api_calls' = 0
          /\ attempt_number' = 0
          /\ waits' = <<>>
          /\ consecutive_api_errors' = consecutive_api_errors
          /\ circuit_breaker_tripped' = circuit_breaker_tripped]_vars

\* a repair submit arrived at a tripped breaker
C4_Witness ==
    /\ circuit_breaker_tripped
    /\ gpc = "ret"
    /\ caller = "fix"
    /\ result = "CircuitOpen"
    /\ attempt_number = 0

\* C5: a transient failure of an endpoint call adds exactly one to the
\* counter, a successful endpoint call sets it to zero, and a call_llm that
\* returned a response leaves the counter at zero.
C5_CounterUpdates ==
    [][/\ (EndpointCalled /\ last_event' = "transient")
            => consecutive_api_errors' = consecutive_api_errors + 1
       /\ (EndpointCalled /\ last_event' = "success")
            => consecutive_api_errors' = 0
       /\ (gpc' = "ret" /\ result' = "response")
            => consecutive_api_errors' = 0]_vars

\* a success after three transient failures of the same call_llm
C5_Witness ==
    /\ gpc = "ret"
    /\ result = "response"
    /\ api_calls = 4
    /\ consecutive_api_errors = 0

\* C6: one call_llm makes at most five attempts, a further attempt follows
\* only a transient failure, never a success, and the fifth attempt always
\* ends the call with a response or an error.
C6_AtMostFiveAttempts ==
    [][/\ api_calls' <= 5
       /\ attempt_number' <= 5
       /\ gpc' = "wait" => last_event' = "transient"
       /\ (gpc' = "call" /\ attempt_number' > 1) => last_event' = "transient"
       /\ last_event' = "success" => (gpc' \in {"ret", "idle"} /\ result' = "response")
       /\ (gpc = "call" /\ attempt_number = 5 /\ gpc' # "call") =>
             (gpc' = "ret" /\ result' \in {"response", "RetryError", "Error", "CircuitOpen"})
      ]_vars

\* the fifth attempt failed too and the call ended with the retry error
C6_Witness ==
    /\ gpc = "ret"
    /\ result = "RetryError"
    /\ api_calls = 5
    /\ attempt_number = 5

\* C7 as stated: the wait before retry n (n = 0..3) is min(10, 4 * 2^n).
C7_WaitsDoubleFromFour ==
    \A n \in 1..Len(waits) : waits[n] = Min(WAIT_MAX, WAIT_MIN * Pow2(n - 1))

\* C7 amended: the wait before retry n (n = 0..3) is max(4, min(10, 2^n)),
\* i.e. the waits are 4, 4, 4, 8: never below 4, never above 10.
C7_WaitsClampedPowers ==
    /\ Len(waits) <= 4
    /\ \A n \in 1..Len(waits) : waits[n] = <<4, 4, 4, 8>>[n]

\* all four waits of one call_llm have been inserted
C7_Witness == gpc = "wait" /\ Len(waits) = 4 /\ attempt_number = 4

\* C8: an endpoint error that is not a connection, timeout or status error
\* ends call_llm with that error after this attempt, without a wait or a
\* further attempt, and adds one to the counter, tripping the breaker when
\* the counter reaches the threshold.
C8_UnexpectedErrorPropagates ==
    [][(EndpointCalled /\ last_event' = "other") =>
          /\ gpc' = "ret"
          /\ result' = "Error"
          /\ waits' = waits
          /\ attempt_number' = attempt_number
          /\ consecutive_api_errors' = consecutive_api_errors + 1
          /\ (consecutive_api_errors' >= MAX_API_ERROR_COUNT
                => circuit_breaker_tripped')]_vars

\* the fifth consecutive error was an unexpected one and tripped the breaker
C8_Witness ==
    /\ gpc = "ret"
    /\ last_event = "other"
    /\ result = "Error"
    /\ api_calls = 1
    /\ consecutive_api_errors = MAX_API_ERROR_COUNT
    /\ circuit_breaker_tripped

\* the facility returned marker output k times, then marker-free output
MarkersThenClean(k) ==
    /\ Len(outs) = k + 1
    /\ \A i \in 1..k : outs[i] = "marker"
    /\ outs[k + 1] = "clean"

\* C9: for every k in 0..8, a finished session whose first k attempts gave
\* marker output and whose attempt k+1 gave marker-free output made exactly
\* k repair calls and one judge call, carries the judge's classification
\* and has fix_attempts = k.
C9_RepairsThenClassified ==
    \A k \in 0..MAX_FIX_ATTEMPTS :
        (spc = "done" /\ MarkersThenClean(k)) =>
            /\ repair_calls = k
            /\ judge_calls = 1
            /\ fix_attempts = k
            /\ has_poc
            /\ verify_status = judge_result
            /\ verify_status \in JudgeAnswers \cup {"UNKNOWN"}

\* two marker outputs, then a clean run judged defended
C9_Witness ==
    /\ spc = "done"
    /\ outs = <<"marker", "marker", "clean">>
    /\ verify_status = "SAFE_PASS"
    /\ repair_calls = 2
    /\ fix_attempts = 2

TimedOut(o) == o # <<>> /\ o[Len(o)] = "timeout"

\* C10: an attempt that times out ends the session with TIMEOUT at that
\* attempt: no repair call, no judge call and no further attempt follows,
\* and a first attempt that times out leaves one attempt and zero repairs.
C10_TimeoutIsTerminal ==
    [][/\ TimedOut(outs') =>
            /\ verify_status' = "TIMEOUT"
            /\ spc' \in {"done", "idle"}
            /\ judge_calls' = 0
            /\ repair_calls' = Len(outs') - 1
       /\ TimedOut(outs) => outs' \in {outs, <<>>}
       /\ outs' = <<"timeout">> => (repair_calls' = 0 /\ fix_attempts' = 0)
      ]_vars

\* the first attempt timed out and the session has ended
C10_Witness ==
    /\ spc = "done"
    /\ outs = <<"timeout">>
    /\ verify_status = "TIMEOUT"
    /\ repair_calls = 0

\* C11: a session makes at most 9 build/execute attempts and at most 8
\* repair calls; it ends COMPILATION_FAILED exactly when the 9th attempt's
\* output still matches a marker, and then keeps that output and
\* fix_attempts = 8, with no ninth repair call and no judge call.
C11_AttemptBudget ==
    /\ Len(outs) <= 9
    /\ repair_calls <= 8
    /\ spc = "done" =>
          (verify_status = "COMPILATION_FAILED"
              <=> (Len(outs) = 9 /\ outs[9] = "marker"))
    /\ (spc = "done" /\ verify_status = "COMPILATION_FAILED") =>
          /\ verify_output = [at |-> 9, kind |-> "marker"]
          /\ fix_attempts = 8
          /\ repair_calls = 8
          /\ judge_calls = 0

\* nine marker outputs in a row
C11_Witness ==
    /\ spc = "done"
    /\ Len(outs) = 9
    /\ verify_status = "COMPILATION_FAILED"

SessionEnded == spc \in {"done", "aborted"}

\* C12: a finding that entered verification ends with a result whose state
\* is CLASSIFIED (a judge status or UNKNOWN), TIMEOUT or COMPILATION_FAILED,
\* whatever the facility, the repair call and the judge do; never SKIPPED.
C12_SessionEndsTerminal ==
    SessionEnded =>
        /\ has_poc
        /\ verify_status \in
             JudgeAnswers \cup {"UNKNOWN", "TIMEOUT", "COMPILATION_FAILED"}

\* C13: when a session has ended, by any outcome, the PoC copy in the target
\* source directory has been removed and the artifact under poc_scripts is
\* still there.
C13_CopyRemovedAtSessionEnd ==
    SessionEnded => (~copy_present /\ artifact)

\* C14: when the per-finding loop of a project is over, every finding of the
\* project has a record in project_vulnerabilities.
C14_EveryFindingRecorded ==
    dpc = "report" => recorded = MaxFindings

\* C15: once the project's call counter has reached MAX_CALLS_PER_PROJECT no
\* governed call is started for the project, and when its per-finding loop
\* is over every finding has a record.
C15_QuotaStopsCalls ==
    [][/\ QuotaReached(project_calls) => ~(gpc = "idle" /\ gpc' # "idle")
       /\ (QuotaReached(project_calls') /\ dpc' = "report")
             => recorded' = MaxFindings]_vars

\* C16: the PoC artifact is written and the session entered if and only if
\* the verdict is HIGH or MEDIUM, the finding is testable and the PoC is
\* longer than 20 characters; otherwise nothing is run or called and the
\* finding keeps has_poc false, verify_status SKIPPED and fix_attempts 0.
C16_VerificationIffPrecondition ==
    verdict # "none" =>
        /\ artifact <=> (verdict \in {"HIGH", "MEDIUM"} /\ is_testable /\ poc_len > 20)
        /\ ~artifact =>
              /\ spc = "idle"
              /\ outs = <<>>
              /\ repair_calls = 0
              /\ judge_calls = 0
              /\ ~copy_present
              /\ ~has_poc
              /\ verify_status = "SKIPPED"
              /\ fix_attempts = 0

\* a testable HIGH finding with a PoC of exactly 20 characters was recorded
\* without verification
C16_Witness ==
    /\ verdict = "HIGH"
    /\ is_testable
    /\ poc_len = 20
    /\ ~artifact
    /\ recorded = 1
    /\ dpc = "loop"

\* C17: when the judge's answer cannot be parsed the session has ended with
\* UNKNOWN and the output of the attempt that was judged; the judge was
\* called once and no attempt followed.
C17_UnparseableIsUnknown ==
    judge_response = "unparseable" =>
        /\ spc \in {"done", "idle"}
        /\ verify_status = "UNKNOWN"
        /\ verify_output = Captured(outs)
        /\ verify_output.kind # "marker"
        /\ judge_calls = 1
        /\ repair_calls = Len(outs) - 1

\* an unparseable answer after one repaired attempt
C17_Witness ==
    /\ judge_response = "unparseable"
    /\ spc = "done"
    /\ outs = <<"marker", "clean">>

LastOut == IF outs = <<>> THEN "none" ELSE outs[Len(outs)]

\* C18 as stated: an invocation that cannot start is handled as a compile
\* failure: repair or COMPILATION_FAILED, and never a judge call.
C18_NoStartEntersRepair ==
    LastOut = "nostart" =>
        /\ judge_calls = 0
        /\ spc = "fix" \/ verify_status = "COMPILATION_FAILED"

\* C18 amended: the output of an invocation that cannot start matches no
\* marker; no repair call is made for it, it is sent to the judge once and
\* the session ends with the judge's status.
C18_NoStartIsJudged ==
    LastOut = "nostart" =>
        /\ judge_calls = 1
        /\ repair_calls = Len(outs) - 1
        /\ spc \in {"judge", "done", "idle"}
        /\ spc # "judge" =>
              /\ verify_status = judge_result
              /\ verify_status \in JudgeAnswers \cup {"UNKNOWN"}
              /\ verify_output = [at |-> Len(outs), kind |-> "nostart"]

\* the first invocation could not start and the judge answered ERROR
C18_Witness ==
    /\ spc = "done"
    /\ outs = <<"nostart">>
    /\ verify_status = "ERROR"
    /\ repair_calls = 0

\* C19: once the breaker is tripped the driver starts no analysis and no
\* project, and the report of the project in progress is still saved.
C19_TrippedAbortsAudit ==
    [][circuit_breaker_tripped =>
          /\ ~(dpc # "analyzing" /\ dpc' = "analyzing")
          /\ ~(dpc = "project" /\ dpc' = "loop")
          /\ proj' = proj
          /\ (dpc = "loop" /\ dpc' # "loop") => dpc' = "report"
          /\ (dpc = "report" /\ dpc' # "report")
                => (dpc' = "end" /\ reports' = reports + 1)]_vars

\* tripped in the first project: its report is saved, no second project
C19_Witness ==
    /\ circuit_breaker_tripped
    /\ dpc = "end"
    /\ proj = 0
    /\ reports = 1
    /\ idx < MaxFindings

\* C20: _clean_function_name is idempotent: cleaning a cleaned name returns
\* it unchanged.
C20_CleanIdempotent ==
    cn_pc = "twice" => cn_again = cn_out

\* a qualified call with blanks was cleaned twice
C20_Witness ==
    /\ cn_pc = "twice"
    /\ cn_in = <<".", " ", "b", "(">>
    /\ cn_out = <<"b">>

\* ---------------------------------------------- properties of the resolver

\* the text of s before its first '(' (all of s when it has none)
TextBeforeFirstParen(s) ==
    LET k == IF \E i \in 1..Len(s) : s[i] = "("
             THEN CHOOSE i \in 1..Len(s) :
                      s[i] = "(" /\ \A j \in 1..(i - 1) : s[j] # "("
             ELSE Len(s) + 1
    IN  [i \in 1..(k - 1) |-> s[i]]

\* the text of s behind its last '.' (all of s when it has none)
FinalSegment(s) ==
    LET k == IF \E i \in 1..Len(s) : s[i] = "."
             THEN CHOOSE i \in 1..Len(s) :
                      s[i] = "." /\ \A j \in (i + 1)..Len(s) : s[j] # "."
             ELSE 0
    IN  [i \in 1..(Len(s) - k) |-> s[k + i]]

\* s has no blank at either end
NoOuterBlank(s) == s = <<>> \/ (s[1] # " " /\ s[Len(s)] # " ")

\* t is s without the blanks at its two ends
IsTrimmed(s, t) ==
    /\ NoOuterBlank(t)
    /\ \E a \in 0..Len(s) :
          /\ a + Len(t) <= Len(s)
          /\ \A i \in 1..Len(s) :
                IF i > a /\ i <= a + Len(t) THEN s[i] = t[i - a] ELSE s[i] = " "

Cleaned == cn_pc \in {"once", "twice"}

\* C21 (as stated): for every input the cleaned name is the text before the
\* first '(' reduced to its final '.'-separated segment, and it contains
\* neither '(' nor '.'
C21_CleanIsLastSegment ==
    Cleaned =>
        /\ cn_out = FinalSegment(TextBeforeFirstParen(cn_in))
        /\ \A i \in 1..Len(cn_out) : cn_out[i] \notin {"(", "."}

\* C21 (amended): the cleaned name is that final segment with the blanks at
\* its two ends removed; it contains neither '(' nor '.', and a name without
\* '(', '.' and outer blanks is returned unchanged
C21_CleanIsTrimmedLastSegment ==
    Cleaned =>
        /\ IsTrimmed(FinalSegment(TextBeforeFirstParen(cn_in)), cn_out)
        /\ \A i \in 1..Len(cn_out) : cn_out[i] \notin {"(", "."}
        /\ ((\A i \in 1..Len(cn_in) : cn_in[i] \notin {"(", "."})
              /\ NoOuterBlank(cn_in) => cn_out = cn_in)

\* a qualified name with a blank before the argument list was cleaned to its
\* last segment without the blank
C21_Witness ==
    /\ cn_pc = "once"
    /\ cn_in = <<"a", ".", "b", " ">>
    /\ cn_out = <<"b">>

\* the file holds a definition the search can extract: a readable .go or .py
\* source that defines the symbol within the text the guarded read returns
HoldsMatch(f) ==
    /\ f.name \in {"go", "py"}
    /\ f.readable
    /\ f.defines = "head" \/ (f.defines = "tail" /\ f.bytes <= SizeLimit)

\* index of the first such file in traversal order, 0 when there is none
FirstMatch ==
    IF \E i \in 1..Len(rs_files) : HoldsMatch(rs_files[i])
    THEN CHOOSE i \in 1..Len(rs_files) :
             HoldsMatch(rs_files[i]) /\ \A j \in 1..(i - 1) : ~HoldsMatch(rs_files[j])
    ELSE 0

\* C22: the search returns at most one context, the one of the first file in
\* traversal order that holds a match, and reads no file after that hit
C22_FirstMatchWins ==
    /\ Len(found_contexts) <= 1
    /\ found_contexts # <<>> =>
          /\ rs_pc = "returned"
          /\ found_contexts[1].file = FirstMatch
          /\ \A k \in 1..Len(rs_reads) : rs_reads[k] <= FirstMatch

\* two files define the symbol; the first was returned, the second never read
C22_Witness ==
    /\ rs_pc = "returned"
    /\ Len(rs_files) = 2
    /\ HoldsMatch(rs_files[1]) /\ HoldsMatch(rs_files[2])
    /\ found_contexts = <<[file |-> 1, language |-> Language(rs_files[1].name)]>>
    /\ rs_reads = <<1>>

\* C23: the search raises no error, and it returns the empty result when no
\* file defines the symbol, when the project path is no directory, and when
\* no file has a recognized source extension
C23_NotFoundIsEmpty ==
    /\ rs_pc # "raised"
    /\ (/\ rs_pc = "returned"
        /\ \/ ~rs_exists
           \/ \A i \in 1..Len(rs_files) : rs_files[i].defines = "no"
           \/ \A i \in 1..Len(rs_files) : rs_files[i].name = "md")
       => found_contexts = <<>>

\* a tree of a source file without the symbol was searched to its end
C23_Witness ==
    /\ rs_pc = "returned"
    /\ rs_exists
    /\ Len(rs_files) = 2
    /\ \A i \in 1..2 : rs_files[i].name = "go" /\ rs_files[i].readable
                       /\ rs_files[i].defines = "no"
    /\ rs_reads = <<1, 2>>
    /\ found_contexts = <<>>

\* the file is handed to the guarded read, which fails on it
UnreadableCandidate(f) == f.name \in {"go", "py", "js"} /\ ~f.readable

\* C24: a read error never aborts the search and skips only the file it hit:
\* the definition of the first later file that holds a match is returned
C24_ReadErrorSkipsFile ==
    /\ rs_pc # "raised"
    /\ (/\ rs_pc = "returned"
        /\ FirstMatch # 0
        /\ \E i \in 1..(FirstMatch - 1) : UnreadableCandidate(rs_files[i]))
       => /\ found_contexts # <<>>
          /\ found_contexts[1].file = FirstMatch

\* the first file could not be read, the second one's definition was returned
C24_Witness ==
    /\ rs_pc = "returned"
    /\ Len(rs_files) = 2
    /\ UnreadableCandidate(rs_files[1])
    /\ HoldsMatch(rs_files[2])
    /\ rs_reads = <<1, 2>>
    /\ Len(found_contexts) = 1
    /\ found_contexts[1].file = 2

\* opening minus closing braces of the lines h..j
RECURSIVE Balance(_, _, _)
Balance(lines, h, j) ==
    IF j < h THEN 0
    ELSE Balance(lines, h, j - 1) + lines[j].opens - lines[j].closes

\* the file holds exactly one definition of the function, at line h
OneFunction(lines, h) ==
    /\ h \in 1..Len(lines)
    /\ lines[h].func
    /\ \A i \in 1..Len(lines) : (i # h => ~lines[i].func) /\ ~lines[i].def

\* line e holds the closing brace that brings the balance running from the
\* header h back to zero, and the braces of h..e are balanced
ClosingLine(lines, h, e) ==
    /\ e \in h..Len(lines)
    /\ lines[e].closes > 0
    /\ Balance(lines, h, e) = 0
    /\ \A j \in h..(e - 1) :
          /\ Balance(lines, h, j) >= 0
          /\ ~(lines[j].closes > 0 /\ Balance(lines, h, j) = 0)

\* C25: for a file with exactly one definition of a brace-delimited function
\* with balanced braces, the extracted block runs from the header line to
\* the line of the closing brace, whatever lines follow
C25_BlockIsWholeFunction ==
    ex_pc = "out" =>
        \A h \in 1..Len(ex_lines) : \A e \in 1..Len(ex_lines) :
            OneFunction(ex_lines, h) /\ ClosingLine(ex_lines, h, e)
                => ex_block = [found |-> TRUE, first |-> h, last |-> e]

\* C26: the content the guarded read returns for a file larger than the size
\* ceiling is no longer than the ceiling and carries the truncation marker
C26_TruncatedWithinCeiling ==
    (/\ rs_reads # <<>>
     /\ file_content.kind = "text"
     /\ rs_files[rs_reads[Len(rs_reads)]].bytes > SizeLimit)
    => /\ file_content.len <= SizeLimit
       /\ file_content.marked

\* ------------------------------- properties of the session and the driver

\* the session ended with the judge's classification
Classified == spc = "done" /\ judge_calls > 0

\* C27: whenever a session ends CLASSIFIED, the recorded status is one of
\* VULN_CRASH, VULN_RECOVERED, SAFE_PASS, TEST_FAIL or the fallback UNKNOWN,
\* whatever the judge returned.
C27_ClassifiedInClosedSet ==
    Classified =>
        verify_status \in {"VULN_CRASH", "VULN_RECOVERED", "SAFE_PASS",
                           "TEST_FAIL", "UNKNOWN"}

\* C28: repair call n is handed the text attempt n executed and attempt n's
\* output; attempt n+1 executes the text repair call n returned; attempts and
\* repair calls alternate: an attempt starts only when every repair call has
\* returned, and a repair call is made only for the latest attempt.
C28_RepairsFollowAttempts ==
    /\ Len(repairs) <= Len(executed)
    /\ Len(executed) <= Len(repairs) + 1
    /\ \A n \in 1..Len(repairs) :
          /\ repairs[n].code = executed[n]
          /\ repairs[n].output = [at |-> n, kind |-> outs[n]]
          /\ n < Len(executed) => executed[n + 1] = repairs[n].fixed
          /\ n < Len(repairs) => repairs[n].fixed # NoText
    /\ spc = "run" => \A n \in 1..Len(repairs) : repairs[n].fixed # NoText
    /\ spc = "fix" => Len(repairs) = Len(executed)

\* the draft and the texts of two repairs were executed in this order
C28_Witness ==
    /\ Len(executed) = 3
    /\ Len(repairs) = 2
    /\ executed[1] = DraftText
    /\ executed[2] = repairs[1].fixed
    /\ executed[3] = repairs[2].fixed
    /\ repairs[2].code = repairs[1].fixed
    /\ repairs[1].fixed # repairs[2].fixed

\* C29: the findings of an audit run that enter verification are written to
\* pairwise distinct artifact paths.
C29_ArtifactPathsDistinct ==
    \A i \in 1..Len(poc_paths) : \A j \in 1..Len(poc_paths) :
        i # j => poc_paths[i] # poc_paths[j]

\* the step ends a finding with a failure of its own: its analysis raised
\* (nothing is recorded), or its session ended
LocalFailureStep ==
    \/ /\ dpc = "analyzing"
       /\ dpc' \notin {"analyzing", "verifying"}
       /\ recorded' = recorded
    \/ dpc = "verifying" /\ dpc' # "verifying"

FirstHeader(lines, h) ==
    /\ h \in 1..Len(lines)
    /\ lines[h].match
    /\ \A j \in 1..(h - 1) : ~lines[j].match

\* line t is the first non-blank line behind the header h whose indentation
\* is not greater than the header's; Len(lines) + 1 when there is none
Terminator(lines, h, t) ==
    /\ t \in (h + 1)..(Len(lines) + 1)
    /\ t <= Len(lines) => (~lines[t].blank /\ lines[t].indent <= lines[h].indent)
    /\ \A j \in (h + 1)..(t - 1) : lines[j].blank \/ lines[j].indent > lines[h].indent

\* C31: for a Python definition the extracted block is the header line and
\* every following line up to, and excluding, the first non-blank line whose
\* indentation is less than or equal to the header's.
C31_BlockEndsAtDedent ==
    ex_pc = "out" =>
        \A h \in 1..Len(ex_lines) : \A t \in 1..(Len(ex_lines) + 1) :
            FirstHeader(ex_lines, h) /\ Terminator(ex_lines, h, t)
                => ex_block = [found |-> TRUE, first |-> h, last |-> t - 1]

\* line h is the first line of the file a pattern matches, and it declares a
\* const, var or type without an opening brace
BracelessDeclaration(lines, h) ==
    /\ h \in 1..Len(lines)
    /\ lines[h].def /\ lines[h].opens = 0
    /\ \A j \in 1..(h - 1) : ~(lines[j].func \/ lines[j].def)

\* C32: for a Go const/var/type declaration whose header line has no opening
\* brace the extracted block is exactly the header line, whatever the
\* initializer and whatever lines follow.
C32_DeclarationIsOneLine ==
    ex_pc = "out" =>
        \A h \in 1..Len(ex_lines) :
            BracelessDeclaration(ex_lines, h)
                => ex_block = [found |-> TRUE, first |-> h, last |-> h]

\* --------------------------------------- properties of the Call Governor

\* C34: with one caller at a time the tripped flag is true exactly when the
\* consecutive-error counter has reached the threshold, and the counter never
\* exceeds the threshold: no failure is counted after the trip.
C34_TrippedIffAtThreshold ==
    /\ circuit_breaker_tripped <=> consecutive_api_errors >= MAX_API_ERROR_COUNT
    /\ consecutive_api_errors <= MAX_API_ERROR_COUNT

\* a later call_llm was refused by the tripped breaker and counted nothing
C34_Witness ==
    /\ circuit_breaker_tripped
    /\ consecutive_api_errors = MAX_API_ERROR_COUNT
    /\ gpc = "ret"
    /\ result = "CircuitOpen"
    /\ attempt_number = 0
    /\ failed_submits >= 2

\* the breaker tripped inside the running call_llm, before its fifth attempt
TrippedMidRetry ==
    /\ gpc \in {"wait", "call"}
    /\ circuit_breaker_tripped
    /\ api_calls >= 1
    /\ api_calls < STOP_AFTER_ATTEMPT

\* C35: when the breaker trips inside a call_llm before its fifth attempt,
\* the rest of that call_llm calls the endpoint no more: the wait is followed
\* by one more attempt, which ends with the circuit-open error without a call
\* of the endpoint and without a retry, and call_llm ends with that error.
C35_TripMidRetryEndsSubmit ==
    [][TrippedMidRetry =>
          /\ api_calls' = api_calls
          /\ gpc = "wait" => (gpc' = "call" /\ attempt_number' = attempt_number + 1)
          /\ gpc = "call" => (/\ gpc' = "ret"
                              /\ result' = "CircuitOpen"
                              /\ last_event' = "open"
                              /\ attempt_number' = attempt_number
                              /\ waits' = waits)]_vars

\* a call_llm that started with two errors counted tripped the breaker at its
\* third attempt and ended at the fourth with the circuit-open error
C35_Witness ==
    /\ gpc = "ret"
    /\ result = "CircuitOpen"
    /\ last_event = "open"
    /\ attempt_number = 4
    /\ api_calls = 3
    /\ Len(waits) = 3

\* ------------------------------------------------ properties of the judge

\* the step calls _analyze_poc_output_with_ai
JudgeCalled == judge_calls' = judge_calls + 1

\* C36: a verification session calls the judge at most once, only for an
\* attempt whose captured output matched no compile/environment marker, and
\* after the judge call the session makes no attempt and no repair call.
C36_JudgeOnceAndLast ==
    [][/\ judge_calls' <= 1
       /\ JudgeCalled =>
            /\ outs' = Append(outs, outs'[Len(outs')])
            /\ outs'[Len(outs')] \in {"clean", "nostart"}
       /\ (judge_calls = 1 /\ judge_calls' = 1) =>
            /\ outs' = outs
            /\ repair_calls' = repair_calls]_vars

\* one repaired marker output, then a run the judge classified
C36_Witness ==
    /\ spc = "done"
    /\ judge_calls = 1
    /\ outs = <<"marker", "clean">>
    /\ repair_calls = 1
    /\ verify_status = "VULN_CRASH"

\* the governed call of the judge came back with an error
JudgeCallFailed == spc = "judge" /\ gpc = "ret" /\ result # "response"

\* C37: a failed judge call does not propagate: the session ends with
\* UNKNOWN and the output of the judged attempt, the lines after the loop run
\* (has_poc set, copy removed), and the finding is recorded next.
C37_JudgeFailureIsUnknown ==
    [][/\ (JudgeCallFailed /\ spc' # "judge") =>
            /\ spc' = "done"
            /\ verify_status' = "UNKNOWN"
            /\ verify_output' = [at |-> Len(outs), kind |-> outs[Len(outs)]]
            /\ has_poc'
            /\ ~copy_present'
       /\ (judge_response = "failed" /\ spc \in {"done", "aborted"} /\ spc' # spc) =>
            /\ spc = "done"
            /\ verify_status = "UNKNOWN"
            /\ recorded' = recorded + 1]_vars

\* the judge's call ran out of retries and the session ended UNKNOWN
C37_Witness ==
    /\ spc = "done"
    /\ judge_response = "failed"
    /\ result = "RetryError"
    /\ caller = "judge"
    /\ verify_status = "UNKNOWN"
    /\ verify_output = [at |-> 1, kind |-> "clean"]
    /\ has_poc
    /\ ~copy_present

\* ------------------------------------- properties of concurrent callers

\* no caller is inside an error handler or about to store the reset
Quiescent == \A t \in Threads : th_pc[t] \in {"enter", "request", "done"}

\* C33: when callers execute call_llm concurrently no update of the
\* class-level counter is lost: with no success so far the counter equals
\* the number of failed endpoint calls whenever no handler is running, and
\* after MAX_API_ERROR_COUNT such failures the breaker is tripped.
C33_NoLostUpdate ==
    (Quiescent /\ ~th_reset) =>
        /\ consecutive_api_errors = th_failed
        /\ th_failed >= MAX_API_ERROR_COUNT => circuit_breaker_tripped

====
